---- MODULE Spec2Model ----
(***************************************************************************)
(* A model of the instrumentation core of cpp-stack-tracer:                *)
(*   include/instrumentor.h  - Instrumentor (session engine, JSON writer)  *)
(*                             and InstrumentationTimer (scoped timer).    *)
(*   src/simple_sampler.cpp  - convertToTrace, which turns stack samples   *)
(*                             into start/end events.                      *)
(* Files are byte strings: every `<<` of the source puts the same text     *)
(* into the stream and flush() moves it to the file, so documents can be   *)
(* compared literally.                                                     *)
(***************************************************************************)
EXTENDS Integers, Sequences, FiniteSets, TLC

(***************************************************************************)
(* Bounds of the exploration.                                              *)
(***************************************************************************)
MaxTimers   == 2    \* InstrumentationTimer objects the program constructs
MaxSessions == 2    \* beginSession calls the program makes
ClockStart  == 1    \* steady_clock reading when the program starts
MaxTicks    == 1    \* microseconds that elapse during the run
MaxNameLen  == 2    \* length of the scope names explored by SpecNames
WordBits    == 12   \* width at which the uint64_t/uint32_t arithmetic is modelled
MaxSamples  == 3    \* length of the sample sequences given to convertToTrace

Timers == 1..MaxTimers

\* uint64_t arithmetic wraps modulo 2^width; the model keeps the wrap-around
\* at a width TLC's integers can hold.
Modulus == 2 ^ WordBits

\* a subtraction that stops at zero instead of wrapping
USub_Saturating(a, b) == IF a < b THEN 0 ELSE a - b

USub(a, b) == (a - b) % Modulus

(***************************************************************************)
(* Inputs of the operations.                                               *)
(***************************************************************************)
\* filepath arguments of beginSession; the last one lies in a directory
\* that does not exist, so std::ofstream::open fails on it.
Paths      == {"f1.json", "f2.json", "nodir/f.json"}
Unopenable == {"nodir/f.json"}

\* name argument of the k-th beginSession call
SessionName(k) == IF k = 1 THEN "A" ELSE IF k = 2 THEN "B" ELSE "C"

\* characters of scope names: a letter, the double quote, the single quote
\* and the backslash
DQ == "\""
SQ == "'"
Chars == {"a", DQ, SQ, "\\"}

\* scope names (const char* given to the timer), as character sequences
RECURSIVE NamesOfLen(_)
NamesOfLen(n) ==
    IF n = 0 THEN {<<>>}
    ELSE {Append(s, c) : s \in NamesOfLen(n - 1), c \in Chars}

AllNames == UNION {NamesOfLen(n) : n \in 0..MaxNameLen}

\* the scope name used by the ordinary exploration
ScopeNames == {<<"a", DQ>>}

\* the bytes of a character sequence
RECURSIVE Str(_)
Str(s) == IF s = <<>> THEN "" ELSE Head(s) \o Str(Tail(s))

\* the calling thread and std::hash<std::thread::id> cut to 32 bits
MainThread == 1
Threads    == {1, 2}
ThreadHash(th) == (th * 40503 + 7) % Modulus

(***************************************************************************)
(* State.                                                                  *)
(***************************************************************************)
VARIABLES
    ins,      \* the Instrumentor singleton: its five data members
    files,    \* the file system: path -> [exists, data]
    diskFull, \* environment: the device refuses further writes
    now,      \* the steady clock, in microseconds
    names,    \* the scope names the program gives to its timers
    timers,   \* the InstrumentationTimer objects
    thr,      \* per thread: position inside stop()/writeProfile and its locals
    lastOp,   \* the last public operation that was called (history)
    log,      \* history: one record per beginSession call
    io,       \* history: the open/close calls made on the stream, in order
    syn       \* the call of convertToTrace: its argument, locals and position

vars == <<ins, files, diskFull, now, names, timers, thr, lastOp, log, io, syn>>

\* std::ofstream m_outputStream is [path, fail, buf]: the associated file (NoFile
\* when none is open), whether failbit or badbit is set, and the bytes put
\* into the stream buffer and not yet flushed.
NoFile == ""

HEADER == "{\"otherData\": {},\"traceEvents\":["
FOOTER == "]}"
SEPARATOR == ", "

\* The part of the state the Instrumentor's member functions read and write,
\* threaded through them in the order of the source's statements.
Machine == [ins |-> ins, files |-> files, log |-> log, io |-> io]

Stream(m) == m.ins.m_outputStream

Active(m) == m.ins.m_currentSessionActive

(***************************************************************************)
(* std::ofstream, as used by the Instrumentor (exceptions() is never set,  *)
(* so a failure only sets a state bit and later output is discarded).      *)
(***************************************************************************)
\* operator<< : nothing happens on a failed stream; without an open file the
\* characters cannot be stored and badbit is set; otherwise they are buffered.
Put(m, text) ==
    IF Stream(m).fail THEN m
    ELSE IF Stream(m).path = NoFile
         THEN [m EXCEPT !.ins.m_outputStream.fail = TRUE]
         ELSE [m EXCEPT !.ins.m_outputStream.buf = @ \o text]

\* a flush that puts the buffered bytes before what the file already holds
Flush_Front(m) ==
    IF Stream(m).fail \/ Stream(m).path = NoFile THEN m
    ELSE IF diskFull
         THEN [m EXCEPT !.ins.m_outputStream.fail = TRUE,
                        !.ins.m_outputStream.buf = ""]
         ELSE [m EXCEPT !.files[Stream(m).path].data = Stream(m).buf \o @,
                        !.ins.m_outputStream.buf = ""]

\* flush(): nothing happens on a failed stream; otherwise the buffer goes to
\* the file, or the write is refused, the bytes are lost and badbit is set.
Flush(m) ==
    IF Stream(m).fail \/ Stream(m).path = NoFile THEN m
    ELSE IF diskFull
         THEN [m EXCEPT !.ins.m_outputStream.fail = TRUE,
                        !.ins.m_outputStream.buf = ""]
         ELSE [m EXCEPT !.files[Stream(m).path].data = @ \o Stream(m).buf,
                        !.ins.m_outputStream.buf = ""]

\* open(filepath, out | trunc): fails (failbit) when a file is already open or
\* the file cannot be created; on success the file is created or truncated and
\* the state bits are cleared.
Open(m, filepath) ==
    IF Stream(m).path # NoFile \/ filepath \in Unopenable
    THEN [m EXCEPT !.ins.m_outputStream.fail = TRUE]
    ELSE [m EXCEPT !.ins.m_outputStream = [path |-> filepath, fail |-> FALSE, buf |-> ""],
                   !.files[filepath] = [exists |-> TRUE, data |-> ""],
                   !.io = Append(@, [op |-> "open", path |-> filepath,
                                     k |-> Len(m.log) + 1])]

\* close(): fails (failbit) when no file is open; otherwise writes what is
\* still buffered, if the device takes it, and closes the file.
Close(m) ==
    IF Stream(m).path = NoFile
    THEN [m EXCEPT !.ins.m_outputStream.fail = TRUE]
    ELSE [m EXCEPT !.files[Stream(m).path].data =
                        IF diskFull THEN @ ELSE @ \o Stream(m).buf,
                   !.ins.m_outputStream.fail =
                        @ \/ (diskFull /\ Stream(m).buf # ""),
                   !.ins.m_outputStream.path = NoFile,
                   !.ins.m_outputStream.buf = "",
                   !.io = Append(@, [op |-> "close", path |-> Stream(m).path,
                                     k |-> Len(m.log)])]

(***************************************************************************)
(* History kept beside the program: log[k] describes the k-th session      *)
(* begun:  path, base (the baseline captured), reopen (a session was       *)
(* active when it was begun), evs (the intervals record accepted, with the *)
(* values it wrote), closed, and ok (the environment let every output of   *)
(* the session succeed: the path can be opened and the device was not full *)
(* at any write).  io lists the open and close calls that succeeded, each  *)
(* with the session it was made for.                                       *)
(***************************************************************************)
NoteSink(m) ==
    IF m.log = <<>> THEN m
    ELSE [m EXCEPT !.log[Len(m.log)].ok = @ /\ ~diskFull]

(***************************************************************************)
(* Instrumentor                                                            *)
(***************************************************************************)
writeHeader(m) == Flush(Put(m, HEADER))

writeFooter(m) == Flush(Put(m, FOOTER))

\* endSession without the early return of lines 124-127
endSession_NoGuard(m) ==
    LET m1 == writeFooter(m)
        m2 == Close(m1)
        m3 == [m2 EXCEPT !.ins.m_currentSessionActive = FALSE,
                         !.ins.m_profileCount = 0,
                         !.ins.m_sessionStartUs = 0]
    IN  IF m3.log = <<>> THEN m3
        ELSE [NoteSink(m3) EXCEPT !.log[Len(m3.log)].closed = TRUE]

\* endSession that closes the file without writing the footer
endSession_NoFooter(m) ==
    IF ~Active(m) THEN m
    ELSE LET m2 == Close(m)
             m3 == [m2 EXCEPT !.ins.m_currentSessionActive = FALSE,
                              !.ins.m_profileCount = 0,
                              !.ins.m_sessionStartUs = 0]
         IN  [NoteSink(m3) EXCEPT !.log[Len(m3.log)].closed = TRUE]

endSession(m) ==
    IF ~Active(m) THEN m
    ELSE LET m1 == writeFooter(m)
             m2 == Close(m1)
             m3 == [m2 EXCEPT !.ins.m_currentSessionActive = FALSE,
                              !.ins.m_profileCount = 0,
                              !.ins.m_sessionStartUs = 0]
         IN  [NoteSink(m3) EXCEPT !.log[Len(m3.log)].closed = TRUE]

\* beginSession that opens the new file without ending the active session
beginSession_NoImplicitEnd(m, name, filepath) ==
    LET m1 == Open(m, filepath)
        m2 == writeHeader(m1)
        m3 == [m2 EXCEPT !.ins.m_session = [name |-> name],
                         !.ins.m_currentSessionActive = TRUE,
                         !.ins.m_profileCount = 0,
                         !.ins.m_sessionStartUs = now]
    IN  [m3 EXCEPT !.log = Append(@, [path |-> filepath, base |-> now,
                                      reopen |-> Active(m),
                                      evs |-> <<>>, closed |-> FALSE,
                                      ok |-> filepath \notin Unopenable /\ ~diskFull])]

beginSession(m, name, filepath) ==
    LET m0 == IF Active(m) THEN endSession(m) ELSE m
        m1 == Open(m0, filepath)
        m2 == writeHeader(m1)
        m3 == [m2 EXCEPT !.ins.m_session = [name |-> name],
                         !.ins.m_currentSessionActive = TRUE,
                         !.ins.m_profileCount = 0,
                         !.ins.m_sessionStartUs = now]
    IN  [m3 EXCEPT !.log = Append(@, [path |-> filepath, base |-> now,
                                      reopen |-> Active(m),
                                      evs |-> <<>>, closed |-> FALSE,
                                      ok |-> filepath \notin Unopenable /\ ~diskFull])]

\* std::replace called with the two characters exchanged
Replace_Swapped(s, old, new) == [i \in DOMAIN s |-> IF s[i] = new THEN old ELSE s[i]]

\* std::replace(first, last, old, new)
Replace(s, old, new) == [i \in DOMAIN s |-> IF s[i] = old THEN new ELSE s[i]]

\* lines 169-171 and 172-177: the event object, result already made relative
EventHead(result) ==
    "{" \o "\"dur\":" \o ToString(USub(result.endUs, result.startUs)) \o ","
        \o "\"cat\":\"function\","

EventTail(result) ==
    "\"name\":\"" \o Str(result.name) \o "\","
        \o "\"ph\":\"X\","
        \o "\"pid\":0,"
        \o "\"tid\":" \o ToString(result.threadId) \o ","
        \o "\"ts\":" \o ToString(result.startUs)
        \o "}"

EventText(result) == EventHead(result) \o EventTail(result)

\* the test written with a pre-increment: ++m_profileCount > 0
NeedsSeparator_PreIncrement(count) == count + 1 > 0

\* the separator test of line 162, on the value m_profileCount had
NeedsSeparator(count) == count > 0

\* history: what record wrote for the interval of timer t
Written(t, given, result) ==
    [t |-> t, startUs |-> given.startUs, endUs |-> given.endUs,
     dur |-> USub(result.endUs, result.startUs), nm |-> result.name,
     tid |-> result.threadId, ts |-> result.startUs]

\* a record that takes the start of the interval it is given for the baseline
writeProfile_Rebases(m, result, t) ==
    IF ~Active(m) THEN m
    ELSE LET r1 == [result EXCEPT !.startUs = USub(@, m.ins.m_sessionStartUs),
                                  !.endUs = USub(@, m.ins.m_sessionStartUs)]
             old == m.ins.m_profileCount
             m1 == [m EXCEPT !.ins.m_profileCount = old + 1,
                             !.ins.m_sessionStartUs = result.startUs]
             m2 == IF NeedsSeparator(old) THEN Put(m1, SEPARATOR) ELSE m1
             r2 == [r1 EXCEPT !.name = Replace(@, DQ, SQ)]
             m3 == Flush(Put(m2, EventText(r2)))
         IN  NoteSink([m3 EXCEPT !.log[Len(m3.log)].evs =
                                      Append(@, Written(t, result, r2))])

\* a record that leaves the event counter as it is
writeProfile_NoCount(m, result, t) ==
    IF ~Active(m) THEN m
    ELSE LET r1 == [result EXCEPT !.startUs = USub(@, m.ins.m_sessionStartUs),
                                  !.endUs = USub(@, m.ins.m_sessionStartUs)]
             old == m.ins.m_profileCount
             m2 == IF NeedsSeparator(old) THEN Put(m, SEPARATOR) ELSE m
             r2 == [r1 EXCEPT !.name = Replace(@, DQ, SQ)]
             m3 == Flush(Put(m2, EventText(r2)))
         IN  NoteSink([m3 EXCEPT !.log[Len(m3.log)].evs =
                                      Append(@, Written(t, result, r2))])

\* writeProfile(result); t names the timer the interval comes from (history)
writeProfile(m, result, t) ==
    IF ~Active(m) THEN m
    ELSE LET r1 == [result EXCEPT !.startUs = USub(@, m.ins.m_sessionStartUs),
                                  !.endUs = USub(@, m.ins.m_sessionStartUs)]
             old == m.ins.m_profileCount
             m1 == [m EXCEPT !.ins.m_profileCount = old + 1]
             m2 == IF NeedsSeparator(old) THEN Put(m1, SEPARATOR) ELSE m1
             r2 == [r1 EXCEPT !.name = Replace(@, DQ, SQ)]
             m3 == Flush(Put(m2, EventText(r2)))
         IN  NoteSink([m3 EXCEPT !.log[Len(m3.log)].evs =
                                      Append(@, Written(t, result, r2))])

(***************************************************************************)
(* InstrumentationTimer.  A timer is [st, m_name, m_stopped, m_startUs]    *)
(* with st its lifetime ("unborn", "alive", "dead"), th the thread that    *)
(* owns it, and two history fields: calls, the number of intervals it      *)
(* submitted, and sess, the session that was active when it submitted one  *)
(* (0 when none was).                                                      *)
(***************************************************************************)
NoTimer == [st |-> "unborn", m_name |-> <<>>, m_stopped |-> FALSE, m_startUs |-> 0,
            th |-> MainThread, calls |-> 0, sess |-> 0]

\* InstrumentationTimer(name)
newTimer(name, th) ==
    [st |-> "alive", m_name |-> name, m_stopped |-> FALSE, m_startUs |-> now,
     th |-> th, calls |-> 0, sess |-> 0]

\* stop() without the early return of lines 262-265
stop_NoGuard(m, tm, t) ==
    [m  |-> writeProfile(m, [name |-> tm.m_name, startUs |-> tm.m_startUs,
                             endUs |-> now, threadId |-> ThreadHash(tm.th)], t),
     tm |-> [tm EXCEPT !.m_stopped = TRUE,
                       !.calls = @ + 1,
                       !.sess = IF Active(m) THEN Len(m.log) ELSE 0]]

\* a stop() that marks the timer stopped only when a session took the interval
stop_RetriesLater(m, tm, t) ==
    IF tm.m_stopped THEN [m |-> m, tm |-> tm]
    ELSE LET endUs == now
             threadId == ThreadHash(tm.th)
         IN  [m  |-> writeProfile(m, [name |-> tm.m_name, startUs |-> tm.m_startUs,
                                      endUs |-> endUs, threadId |-> threadId], t),
              tm |-> [tm EXCEPT !.m_stopped = Active(m),
                                !.calls = @ + 1,
                                !.sess = IF Active(m) THEN Len(m.log) ELSE 0]]

\* stop(): the machine and the timer after the call
stop(m, tm, t) ==
    IF tm.m_stopped THEN [m |-> m, tm |-> tm]
    ELSE LET endUs == now
             threadId == ThreadHash(tm.th)
         IN  [m  |-> writeProfile(m, [name |-> tm.m_name, startUs |-> tm.m_startUs,
                                      endUs |-> endUs, threadId |-> threadId], t),
              tm |-> [tm EXCEPT !.m_stopped = TRUE,
                                !.calls = @ + 1,
                                !.sess = IF Active(m) THEN Len(m.log) ELSE 0]]

\* a destructor that releases the timer without stopping it
destroy_NoStop(m, tm, t) == [m |-> m, tm |-> [tm EXCEPT !.st = "dead"]]

\* ~InstrumentationTimer()
destroy(m, tm, t) ==
    LET r == IF ~tm.m_stopped THEN stop(m, tm, t) ELSE [m |-> m, tm |-> tm]
    IN  [m |-> r.m, tm |-> [r.tm EXCEPT !.st = "dead"]]

(***************************************************************************)
(* convertToTrace (simple_sampler.cpp).  A Sample is [ts, stack], the      *)
(* stack root first; an Event is [ts, kind, name].  Timestamps are doubles *)
(* in the source and are only copied; the model writes them in tenths, so  *)
(* 7.5 is 75.                                                              *)
(***************************************************************************)
\* the frame names and the timestamps of the samples built by main
Frames     == {"main", "my_fn"}
TimeStamps == {75, 92, 107}

\* call stacks: the sequences of frame names, a name possibly repeated
\* (recursion), no longer than the number of names
Stacks == UNION {[1..n -> Frames] : n \in 0..Cardinality(Frames)}

SampleValues == [ts : TimeStamps, stack : Stacks]

\* the arguments of convertToTrace: timestamps in any order
SampleSeqs == UNION {[1..n -> SampleValues] : n \in 0..MaxSamples}

\* the samples of main, lines 58-62
MainSamples ==
    << [ts |-> 75,  stack |-> <<"main">>],
       [ts |-> 92,  stack |-> <<"main", "my_fn">>],
       [ts |-> 107, stack |-> <<"main">>] >>

\* std::find(first, last, value) != last
Found(seq, value) == \E k \in DOMAIN seq : seq[k] = value

\* running.back()
back(running) == running[Len(running)]

\* running.pop_back()
pop_back(running) == SubSeq(running, 1, Len(running) - 1)

\* a push that puts the name in front of the vector
push_back_Front(running, func) == <<func>> \o running

\* running.push_back(func)
push_back(running, func) == Append(running, func)

\* a loop condition that is never true
Stale_Never(running, stack) == FALSE

\* a loop condition that compares the top frame with the frame at the same
\* depth of the sample instead of searching the sample for it
Stale_Positional(running, stack) ==
    IF running = <<>> THEN FALSE
    ELSE IF Len(running) > Len(stack) THEN TRUE
    ELSE stack[Len(running)] # back(running)

\* the condition of the while loop, lines 34-35
Stale(running, stack) == running # <<>> /\ ~Found(stack, back(running))

\* a test that takes every visited name for a new one
IsNew_Always(running, func) == TRUE

\* the condition of line 43
IsNew(running, func) == ~Found(running, func)

\* an end event naming the bottom frame instead of the top one
EndEvent_Bottom(sample, running) ==
    [ts |-> sample.ts, kind |-> "end", name |-> running[1]]

\* Event{sample.ts, "end", running.back()}, line 37
EndEvent(sample, running) ==
    [ts |-> sample.ts, kind |-> "end", name |-> back(running)]

\* a start event that leaves the timestamp value-initialised
StartEvent_NoTs(sample, func) == [ts |-> 0, kind |-> "start", name |-> func]

\* Event{sample.ts, "start", func}, line 44
StartEvent(sample, func) == [ts |-> sample.ts, kind |-> "start", name |-> func]

\* The call: pc is the statement executed next, samples the argument, i the
\* index of the sample of the outer loop, j that of the name of the inner
\* for loop, running and result the two local vectors.  History: at[e] is the
\* index of the sample that was being processed when result[e] was pushed;
\* run0 and res0 are running and the size of result when sample i was
\* fetched, run1 and res1 the same when its while loop was left.
NotCalled ==
    [pc |-> "off", samples |-> <<>>, i |-> 0, j |-> 0,
     running |-> <<>>, result |-> <<>>, at |-> <<>>,
     run0 |-> <<>>, res0 |-> 0, run1 |-> <<>>, res1 |-> 0]

\* convertToTrace(samples) entered: lines 28-29
Entered(samples) == [NotCalled EXCEPT !.pc = "for", !.samples = samples]

(***************************************************************************)
(* The program: any sequence of calls of the public operations, on one     *)
(* thread, with time passing between them.                                 *)
(***************************************************************************)
Idle == [pc |-> "idle", t |-> 0, old |-> 0, endUs |-> 0,
         result |-> [name |-> <<>>, startUs |-> 0, endUs |-> 0, threadId |-> 0]]

AllIdle == \A th \in Threads : thr[th].pc = "idle"

InitRest ==
    /\ ins = [m_session |-> [name |-> ""],
              m_currentSessionActive |-> FALSE,
              m_outputStream |-> [path |-> NoFile, fail |-> FALSE, buf |-> ""],
              m_profileCount |-> 0,
              m_sessionStartUs |-> 0]
    /\ files = [p \in Paths |-> [exists |-> FALSE, data |-> ""]]
    /\ diskFull = FALSE
    /\ now = ClockStart
    /\ timers = [t \in Timers |-> NoTimer]
    /\ thr = [th \in Threads |-> Idle]
    /\ lastOp = [op |-> "none", t |-> 0, active |-> FALSE, stopped |-> FALSE]
    /\ log = <<>>
    /\ io = <<>>

Init == names = ScopeNames /\ InitRest /\ syn = NotCalled

Commit(m) ==
    /\ ins' = m.ins
    /\ files' = m.files
    /\ log' = m.log
    /\ io' = m.io

Called(op, t) ==
    lastOp' = [op |-> op, t |-> t, active |-> ins.m_currentSessionActive,
               stopped |-> IF t \in Timers THEN timers[t].m_stopped ELSE FALSE]

\* Instrumentor::get().beginSession(name, filepath)
BeginSession(name, filepath) ==
    /\ AllIdle
    /\ Len(log) < MaxSessions
    /\ Commit(beginSession(Machine, name, filepath))
    /\ Called("begin", 0)
    /\ UNCHANGED <<diskFull, now, names, timers, thr, syn>>

\* Instrumentor::get().endSession()
EndSession ==
    /\ AllIdle
    /\ Commit(endSession(Machine))
    /\ Called("end", 0)
    /\ UNCHANGED <<diskFull, now, names, timers, thr, syn>>

\* InstrumentationTimer t(name);
Construct(t, name, th) ==
    /\ timers[t].st = "unborn"
    /\ \A u \in Timers : u < t => timers[u].st # "unborn"
    /\ timers' = [timers EXCEPT ![t] = newTimer(name, th)]
    /\ Called("construct", t)
    /\ UNCHANGED <<ins, files, log, io, diskFull, now, names, thr, syn>>

\* t.stop();
Stop(t) ==
    /\ AllIdle
    /\ timers[t].st = "alive"
    /\ LET r == stop(Machine, timers[t], t)
       IN  /\ Commit(r.m)
           /\ timers' = [timers EXCEPT ![t] = r.tm]
    /\ Called("stop", t)
    /\ UNCHANGED <<diskFull, now, names, thr, syn>>

\* t goes out of scope
Destroy(t) ==
    /\ AllIdle
    /\ timers[t].st = "alive"
    /\ LET r == destroy(Machine, timers[t], t)
       IN  /\ Commit(r.m)
           /\ timers' = [timers EXCEPT ![t] = r.tm]
    /\ Called("destroy", t)
    /\ UNCHANGED <<diskFull, now, names, thr, syn>>

\* a microsecond passes on the steady clock
Tick ==
    /\ now < ClockStart + MaxTicks
    /\ now' = now + 1
    /\ UNCHANGED <<ins, files, diskFull, names, timers, thr, lastOp, log, io, syn>>

\* the device stops accepting writes
DiskFills ==
    /\ ~diskFull
    /\ diskFull' = TRUE
    /\ UNCHANGED <<ins, files, now, names, timers, thr, lastOp, log, io, syn>>

Next ==
    \/ \E filepath \in Paths : BeginSession(SessionName(Len(log) + 1), filepath)
    \/ EndSession
    \/ \E t \in Timers, name \in names : Construct(t, name, MainThread)
    \/ \E t \in Timers : Stop(t)
    \/ \E t \in Timers : Destroy(t)
    \/ Tick
    \/ DiskFills

Spec == Init /\ [][Next]_vars

(***************************************************************************)
(* Several threads.  Nothing in stop() or writeProfile takes a lock, so a  *)
(* call made by one thread runs statement by statement among the           *)
(* statements of the calls of the others; thr[th].pc is the statement      *)
(* thread th executes next, thr[th].result, thr[th].old and thr[th].endUs  *)
(* its locals, thr[th].t the timer it is stopping.                         *)
(* The unsynchronised accesses are a data race; the outcomes modelled are  *)
(* those of the statements taking effect one at a time in some order.      *)
(***************************************************************************)
Goto(th, pc) == thr' = [thr EXCEPT ![th].pc = pc]

\* ~InstrumentationTimer() on the owning thread, up to the call of
\* writeProfile (lines 249, 262-273)
ThreadStop(th, t) ==
    /\ thr[th].pc = "idle"
    /\ timers[t].st = "alive"
    /\ timers[t].th = th
    /\ ~timers[t].m_stopped
    /\ thr' = [thr EXCEPT ![th] =
                  [pc |-> "wp_check", t |-> t, old |-> 0, endUs |-> now,
                   result |-> [name |-> timers[t].m_name,
                               startUs |-> timers[t].m_startUs,
                               endUs |-> now,
                               threadId |-> ThreadHash(th)]]]
    /\ timers' = [timers EXCEPT ![t].calls = @ + 1,
                                ![t].sess = IF ins.m_currentSessionActive
                                            THEN Len(log) ELSE 0]
    /\ Called("destroy", t)
    /\ UNCHANGED <<ins, files, log, io, diskFull, now, names, syn>>

\* line 153
WpCheck(th) ==
    /\ thr[th].pc = "wp_check"
    /\ Goto(th, IF ins.m_currentSessionActive THEN "wp_rel" ELSE "ret")
    /\ UNCHANGED <<ins, files, log, io, diskFull, now, names, timers, lastOp, syn>>

\* lines 159-160
WpRelative(th) ==
    /\ thr[th].pc = "wp_rel"
    /\ thr' = [thr EXCEPT ![th].pc = "wp_load",
                          ![th].result.startUs = USub(@, ins.m_sessionStartUs),
                          ![th].result.endUs = USub(@, ins.m_sessionStartUs)]
    /\ UNCHANGED <<ins, files, log, io, diskFull, now, names, timers, lastOp, syn>>

\* line 162, the read of m_profileCount
WpLoad(th) ==
    /\ thr[th].pc = "wp_load"
    /\ thr' = [thr EXCEPT ![th].pc = "wp_store", ![th].old = ins.m_profileCount]
    /\ UNCHANGED <<ins, files, log, io, diskFull, now, names, timers, lastOp, syn>>

\* line 162, the write of m_profileCount and the test
WpStore(th) ==
    /\ thr[th].pc = "wp_store"
    /\ ins' = [ins EXCEPT !.m_profileCount = thr[th].old + 1]
    /\ Goto(th, IF NeedsSeparator(thr[th].old) THEN "wp_sep" ELSE "wp_head")
    /\ UNCHANGED <<files, log, io, diskFull, now, names, timers, lastOp, syn>>

\* line 164
WpSeparator(th) ==
    /\ thr[th].pc = "wp_sep"
    /\ Commit(Put(Machine, SEPARATOR))
    /\ Goto(th, "wp_head")
    /\ UNCHANGED <<diskFull, now, names, timers, lastOp, syn>>

\* lines 167-171
WpHead(th) ==
    /\ thr[th].pc = "wp_head"
    /\ LET r2 == [thr[th].result EXCEPT !.name = Replace(@, DQ, SQ)]
       IN  /\ Commit(Put(Machine, EventHead(r2)))
           /\ thr' = [thr EXCEPT ![th].pc = "wp_tail", ![th].result = r2]
    /\ UNCHANGED <<diskFull, now, names, timers, lastOp, syn>>

\* lines 172-177
WpTail(th) ==
    /\ thr[th].pc = "wp_tail"
    /\ LET t == thr[th].t
           given == [startUs |-> timers[t].m_startUs, endUs |-> thr[th].endUs]
           m1 == Put(Machine, EventTail(thr[th].result))
       IN  Commit([m1 EXCEPT !.log[Len(m1.log)].evs =
                                  Append(@, Written(t, given, thr[th].result))])
    /\ Goto(th, "wp_flush")
    /\ UNCHANGED <<diskFull, now, names, timers, lastOp, syn>>

\* line 178
WpFlush(th) ==
    /\ thr[th].pc = "wp_flush"
    /\ Commit(NoteSink(Flush(Machine)))
    /\ Goto(th, "ret")
    /\ UNCHANGED <<diskFull, now, names, timers, lastOp, syn>>

\* line 274, and the end of the timer's lifetime
ThreadReturn(th) ==
    /\ thr[th].pc = "ret"
    /\ timers' = [timers EXCEPT ![thr[th].t].m_stopped = TRUE,
                                ![thr[th].t].st = "dead"]
    /\ thr' = [thr EXCEPT ![th] = Idle]
    /\ UNCHANGED <<ins, files, log, io, diskFull, now, names, lastOp, syn>>

NextMT ==
    \/ \E filepath \in Paths : BeginSession(SessionName(Len(log) + 1), filepath)
    \/ EndSession
    \/ \E t \in Timers, name \in names, th \in Threads : Construct(t, name, th)
    \/ \E th \in Threads, t \in Timers : ThreadStop(th, t)
    \/ \E th \in Threads : WpCheck(th)
    \/ \E th \in Threads : WpRelative(th)
    \/ \E th \in Threads : WpLoad(th)
    \/ \E th \in Threads : WpStore(th)
    \/ \E th \in Threads : WpSeparator(th)
    \/ \E th \in Threads : WpHead(th)
    \/ \E th \in Threads : WpTail(th)
    \/ \E th \in Threads : WpFlush(th)
    \/ \E th \in Threads : ThreadReturn(th)
    \/ Tick

SpecMT == Init /\ [][NextMT]_vars

(***************************************************************************)
(* The output document as section 6 of the specification gives it, built   *)
(* from the history: what the sink of session k has to hold.               *)
(***************************************************************************)
ObjectText(e) ==
    "{\"dur\":" \o ToString(e.dur) \o ",\"cat\":\"function\",\"name\":\""
        \o Str(e.nm) \o "\",\"ph\":\"X\",\"pid\":0,\"tid\":" \o ToString(e.tid)
        \o ",\"ts\":" \o ToString(e.ts) \o "}"

RECURSIVE JoinObjects(_)
JoinObjects(evs) ==
    IF evs = <<>> THEN ""
    ELSE IF Len(evs) = 1 THEN ObjectText(evs[1])
    ELSE ObjectText(evs[1]) \o ", " \o JoinObjects(Tail(evs))

OpenDocument(k) == "{\"otherData\": {},\"traceEvents\":[" \o JoinObjects(log[k].evs)

ClosedDocument(k) == OpenDocument(k) \o "]}"

\* the timers whose interval is in the document of session k
TimersIn(k) == {log[k].evs[i].t : i \in DOMAIN log[k].evs}

\* no later session was begun on the file of session k
LastOn(k) == \A j \in (k + 1)..Len(log) : log[j].path # log[k].path

\* the file of session k holds the document of session k
SinkHolds(k) ==
    /\ files[log[k].path].exists
    /\ files[log[k].path].data =
           IF log[k].closed THEN ClosedDocument(k) ELSE OpenDocument(k)

\* the events recorded so far, as <<session, position>>
Recorded == UNION {{<<k, i>> : i \in DOMAIN log[k].evs} : k \in DOMAIN log}

(***************************************************************************)
(* C1                                                                      *)
(***************************************************************************)
\* thread th is inside the increment / separator / event / flush sequence
InRecord(th) == thr[th].pc \in {"wp_store", "wp_sep", "wp_head", "wp_tail", "wp_flush"}

\* what serialised record calls leave behind, seen when no call is running
RecordsIntact ==
    (AllIdle /\ log # <<>> /\ ins.m_currentSessionActive /\ log[Len(log)].ok)
        => /\ ins.m_profileCount = Len(log[Len(log)].evs)
           /\ files[log[Len(log)].path].data = OpenDocument(Len(log))

\* C1: concurrent record calls on the active session are mutually exclusive
\* over the whole increment, separator, event bytes, flush sequence, so that
\* no event's bytes are mixed with another's, no separator is lost or
\* duplicated and no increment of the counter is lost.
C1_RecordIsSerialized ==
    /\ \A a, b \in Threads : a # b => ~(InRecord(a) /\ InRecord(b))
    /\ RecordsIntact

(***************************************************************************)
(* C2                                                                      *)
(***************************************************************************)
\* session k + 1 was begun while session k was active, on another file, has
\* been ended, and the environment failed no output of either
Reopened(k) ==
    /\ k + 1 <= Len(log)
    /\ log[k + 1].reopen
    /\ log[k + 1].closed
    /\ log[k].path # log[k + 1].path
    /\ log[k].ok /\ log[k + 1].ok
    /\ LastOn(k) /\ LastOn(k + 1)

ClosedBeforeOpened(k) ==
    \E i, j \in DOMAIN io :
        /\ i < j
        /\ io[i] = [op |-> "close", path |-> log[k].path, k |-> k]
        /\ io[j] = [op |-> "open", path |-> log[k + 1].path, k |-> k + 1]

\* C2: two begins without an end in between, then an end: both files are
\* complete closed documents, the first closed before the second is opened,
\* each holding exactly the intervals recorded while its session was active.
C2_TwoBeginsTwoDocuments ==
    \A k \in DOMAIN log :
        Reopened(k) =>
            /\ files[log[k].path].exists
            /\ files[log[k].path].data = ClosedDocument(k)
            /\ files[log[k + 1].path].exists
            /\ files[log[k + 1].path].data = ClosedDocument(k + 1)
            /\ ClosedBeforeOpened(k)
            /\ TimersIn(k) = {t \in Timers : timers[t].sess = k}
            /\ TimersIn(k + 1) = {t \in Timers : timers[t].sess = k + 1}
            /\ Cardinality(TimersIn(k)) = Len(log[k].evs)
            /\ Cardinality(TimersIn(k + 1)) = Len(log[k + 1].evs)

C2_Witness ==
    /\ Len(log) >= 2
    /\ Reopened(1)
    /\ Len(log[1].evs) >= 1
    /\ Len(log[2].evs) >= 1

(***************************************************************************)
(* C3                                                                      *)
(***************************************************************************)
AllDone == \A t \in Timers : timers[t].st = "dead"

\* the events recorded for timer t, over all sessions
RECURSIVE EventsUpTo(_, _)
EventsUpTo(t, k) ==
    IF k = 0 THEN 0
    ELSE Cardinality({i \in DOMAIN log[k].evs : log[k].evs[i].t = t})
             + EventsUpTo(t, k - 1)

EventsOf(t) == EventsUpTo(t, Len(log))

RECURSIVE SumEvents(_)
SumEvents(k) == IF k = 0 THEN 0 ELSE Len(log[k].evs) + SumEvents(k - 1)

\* C3 as stated: once every one of the N timers has terminated, the Session
\* has recorded exactly N intervals, however begin and end were interleaved.
C3_ExactlyNRecorded == AllDone => SumEvents(Len(log)) = MaxTimers

\* C3 as amended: once every timer has terminated, each timer has submitted
\* exactly one interval to record, and the Session has recorded exactly one
\* event for each timer whose first termination found a session active, in
\* that session, and none for the others; at no time more than one per timer.
C3_OneSubmissionPerTimer ==
    /\ \A t \in Timers :
          /\ timers[t].calls <= 1
          /\ EventsOf(t) <= 1
    /\ AllDone =>
          /\ \A t \in Timers :
                /\ timers[t].calls = 1
                /\ EventsOf(t) = (IF timers[t].sess > 0 THEN 1 ELSE 0)
                /\ timers[t].sess > 0 => t \in TimersIn(timers[t].sess)
          /\ SumEvents(Len(log)) = Cardinality({t \in Timers : timers[t].sess > 0})

\* every timer has terminated, the last one by a scope exit after an explicit
\* stop(); one was recorded and one was stopped while no session was active
C3_Witness ==
    /\ AllDone
    /\ lastOp.op = "destroy" /\ lastOp.stopped
    /\ \E t \in Timers : timers[t].sess > 0
    /\ \E t \in Timers : timers[t].sess = 0

(***************************************************************************)
(* C4                                                                      *)
(***************************************************************************)
\* the step is a stop() or a scope exit of timer t
StopsOrExits(t) == lastOp'.op \in {"stop", "destroy"} /\ lastOp'.t = t

\* C4: on a timer that is already stopped, stop() and the scope exit leave the
\* timer, the Session and the sink unchanged; a timer stopped one or more
\* times and destroyed in an active session contributes exactly one event.
C4_StopIdempotent ==
    /\ [][\A t \in Timers :
            (StopsOrExits(t) /\ timers[t].m_stopped) =>
                /\ ins' = ins
                /\ files' = files
                /\ log' = log
                /\ timers'[t].m_stopped = timers[t].m_stopped
                /\ timers'[t].m_name = timers[t].m_name
                /\ timers'[t].m_startUs = timers[t].m_startUs
                /\ timers'[t].calls = timers[t].calls]_vars
    /\ [](\A t \in Timers :
            (timers[t].m_stopped /\ timers[t].sess > 0) => EventsOf(t) = 1)

C4_Witness ==
    \E t \in Timers :
        /\ timers[t].st = "dead"
        /\ timers[t].sess > 0
        /\ ins.m_currentSessionActive
        /\ lastOp = [op |-> "destroy", t |-> t, active |-> TRUE, stopped |-> TRUE]
        /\ EventsOf(t) = 1

(***************************************************************************)
(* C5                                                                      *)
(***************************************************************************)
\* C5: with no session active, endSession and record change no field of the
\* Session, write nothing and create or open no file; so nothing is written
\* while no session is active, and a second endSession changes nothing.
C5_InactiveNoOp ==
    /\ [][(~ins.m_currentSessionActive /\ lastOp'.op \in {"end", "stop", "destroy"}) =>
            /\ ins' = ins
            /\ files' = files
            /\ io' = io
            /\ log' = log]_vars
    /\ [](lastOp.op = "end" => ~ins.m_currentSessionActive)

C5_Witness ==
    /\ lastOp.op = "end"
    /\ ~lastOp.active
    /\ \E t \in Timers : timers[t].calls = 1 /\ timers[t].sess = 0
    /\ \A p \in Paths : ~files[p].exists

(***************************************************************************)
(* C6                                                                      *)
(***************************************************************************)
\* the last call was an endSession that ended a session begun on an inactive
\* Instrumentor, in which no interval was recorded, on a working sink
EmptySessionEnded ==
    /\ lastOp.op = "end"
    /\ lastOp.active
    /\ log # <<>>
    /\ ~log[Len(log)].reopen
    /\ log[Len(log)].evs = <<>>
    /\ log[Len(log)].ok

\* C6: begin on an inactive Instrumentor, then end with no interval recorded
\* in between, leaves exactly {"otherData": {},"traceEvents":[]} in the sink.
C6_EmptyDocument ==
    EmptySessionEnded =>
        /\ files[log[Len(log)].path].exists
        /\ files[log[Len(log)].path].data = "{\"otherData\": {},\"traceEvents\":[]}"

C6_Witness == EmptySessionEnded /\ \A t \in Timers : timers[t].st = "unborn"

(***************************************************************************)
(* C7                                                                      *)
(***************************************************************************)
\* C7: in the document of every session the first event follows the header
\* directly and consecutive events are separated by exactly ", "; also for a
\* session begun by the implicit close-and-reopen of one that had events.
C7_Separators ==
    \A k \in DOMAIN log : (log[k].ok /\ LastOn(k)) => SinkHolds(k)

C7_Witness ==
    /\ Len(log) = 2
    /\ log[2].reopen
    /\ ~log[2].closed
    /\ log[1].ok /\ log[2].ok /\ LastOn(1)
    /\ Len(log[1].evs) >= 1
    /\ Len(log[2].evs) >= 1

(***************************************************************************)
(* C8                                                                      *)
(***************************************************************************)
\* C8: every event written has ts = startUs - baselineUs, the non-negative
\* time elapsed from the baseline of the session it is written in to the
\* start of its interval, also for a timer constructed before that begin.
C8_TsIsElapsedTime ==
    \A ki \in Recorded :
        LET e == log[ki[1]].evs[ki[2]]
        IN  /\ e.ts = e.startUs - log[ki[1]].base
            /\ e.ts >= 0

(***************************************************************************)
(* C9                                                                      *)
(***************************************************************************)
\* C9: a destination that cannot be opened or written is reported to the
\* caller; the Session is never active on a sink that has failed, dropping
\* the events it is given.
C9_SinkFailureSurfaced ==
    ins.m_currentSessionActive =>
        /\ ins.m_outputStream.path # NoFile
        /\ ~ins.m_outputStream.fail

(***************************************************************************)
(* C10, checked for every scope name of at most MaxNameLen characters      *)
(***************************************************************************)
InitNames == names \in {{n} : n \in AllNames} /\ InitRest /\ syn = NotCalled

NextNames ==
    \/ BeginSession(SessionName(Len(log) + 1), "f1.json")
    \/ EndSession
    \/ \E t \in Timers, name \in names : Construct(t, name, MainThread)
    \/ \E t \in Timers : Destroy(t)

SpecNames == InitNames /\ [][NextNames]_vars

\* C10: the name written is the given name with every double quote replaced
\* by a single quote at the same position and every other character kept; it
\* holds no double quote, escaped or not; and it is what the sink holds.
C10_NameSanitized ==
    \A ki \in Recorded :
        LET e == log[ki[1]].evs[ki[2]]
            given == timers[e.t].m_name
        IN  /\ Len(e.nm) = Len(given)
            /\ \A j \in 1..Len(given) :
                  e.nm[j] = (IF given[j] = DQ THEN SQ ELSE given[j])
            /\ \A j \in 1..Len(e.nm) : e.nm[j] # DQ
            /\ \A j \in 1..(Len(e.nm) - 1) : ~(e.nm[j] = "\\" /\ e.nm[j + 1] = DQ)
            /\ (log[ki[1]].ok /\ LastOn(ki[1])) => SinkHolds(ki[1])

C10_Witness ==
    \E ki \in Recorded :
        LET e == log[ki[1]].evs[ki[2]]
        IN  /\ timers[e.t].m_name = <<"\\", DQ>>
            /\ e.nm = <<"\\", SQ>>
            /\ log[ki[1]].ok
            /\ log[ki[1]].closed

(***************************************************************************)
(* C11                                                                     *)
(***************************************************************************)
\* the step is the first stop() or scope exit of timer t, and a session is
\* active when it is made
Terminates(t) ==
    /\ ~timers[t].m_stopped
    /\ timers'[t].m_stopped
    /\ ins.m_currentSessionActive

\* the position of the event of timer t in the document of session k
PositionIn(k, t) == CHOOSE i \in DOMAIN log[k].evs : log[k].evs[i].t = t

\* C11: on one thread, in an active session, events are written in the order
\* the timers terminate: each termination puts its event after every event
\* already in the document, so the event of an inner timer (constructed
\* later, terminated earlier) precedes the event of the timer enclosing it.
C11_EmissionOrder ==
    [][\A t \in Timers :
          Terminates(t) =>
              LET k == Len(log)
                  n == Len(log[k].evs)
              IN  /\ Len(log'[k].evs) = n + 1
                  /\ SubSeq(log'[k].evs, 1, n) = log[k].evs
                  /\ log'[k].evs[n + 1].t = t
                  /\ (log'[k].ok /\ LastOn(k)) =>
                        files'[log[k].path].data =
                            files[log[k].path].data
                                \o (IF n > 0 THEN ", " ELSE "")
                                \o ObjectText(log'[k].evs[n + 1])
                  /\ \A u \in Timers :
                        (u > t /\ timers[u].m_stopped /\ timers[u].sess = k) =>
                            PositionIn(k, u)' < PositionIn(k, t)']_vars

\* two nested timers terminated in one session on a working sink: the event
\* of the inner one (timer 2) is first in the document
C11_Witness ==
    \E k \in DOMAIN log :
        /\ log[k].ok /\ LastOn(k)
        /\ Len(log[k].evs) = 2
        /\ log[k].evs[1].t = 2
        /\ log[k].evs[2].t = 1
        /\ timers[1].st = "dead" /\ timers[2].st = "dead"
        /\ SinkHolds(k)

(***************************************************************************)
(* A call of convertToTrace, one loop iteration at a time.                 *)
(***************************************************************************)
\* the variables convertToTrace does not touch
programVars == <<ins, files, diskFull, now, names, timers, thr, lastOp, log, io>>

\* the sample of the outer loop and the name of the inner for loop
sample == syn.samples[syn.i]

func == sample.stack[syn.j]

\* line 31: the loop takes the next sample
ForSample ==
    /\ syn.pc = "for"
    /\ syn.i < Len(syn.samples)
    /\ syn' = [syn EXCEPT !.pc = "while", !.i = @ + 1,
                          !.run0 = syn.running, !.res0 = Len(syn.result)]
    /\ UNCHANGED programVars

\* lines 34-39: one iteration of the while loop
CloseStale ==
    /\ syn.pc = "while"
    /\ Stale(syn.running, sample.stack)
    /\ syn' = [syn EXCEPT !.result = Append(@, EndEvent(sample, syn.running)),
                          !.at = Append(@, syn.i),
                          !.running = pop_back(@)]
    /\ UNCHANGED programVars

\* lines 34-35: the condition is false, the while loop is left
CloseDone ==
    /\ syn.pc = "while"
    /\ ~Stale(syn.running, sample.stack)
    /\ syn' = [syn EXCEPT !.pc = "forfunc", !.j = 1,
                          !.run1 = syn.running, !.res1 = Len(syn.result)]
    /\ UNCHANGED programVars

\* lines 42-46: the name visited is not in running
OpenNew ==
    /\ syn.pc = "forfunc"
    /\ syn.j <= Len(sample.stack)
    /\ IsNew(syn.running, func)
    /\ syn' = [syn EXCEPT !.result = Append(@, StartEvent(sample, func)),
                          !.at = Append(@, syn.i),
                          !.running = push_back(@, func),
                          !.j = @ + 1]
    /\ UNCHANGED programVars

\* lines 42-43: the name visited is already in running
SkipOpen ==
    /\ syn.pc = "forfunc"
    /\ syn.j <= Len(sample.stack)
    /\ ~IsNew(syn.running, func)
    /\ syn' = [syn EXCEPT !.j = @ + 1]
    /\ UNCHANGED programVars

\* line 47: the inner for loop is over
EndSample ==
    /\ syn.pc = "forfunc"
    /\ syn.j > Len(sample.stack)
    /\ syn' = [syn EXCEPT !.pc = "for"]
    /\ UNCHANGED programVars

\* the frames of running, top first, as end events at timestamp ts
RECURSIVE EndsOf(_, _)
EndsOf(running, ts) ==
    IF running = <<>> THEN <<>>
    ELSE <<[ts |-> ts, kind |-> "end", name |-> back(running)]>>
             \o EndsOf(pop_back(running), ts)

\* a return that first ends every frame still open
Return_ClosesOpenFrames ==
    /\ syn.pc = "for"
    /\ syn.i = Len(syn.samples)
    /\ LET ts == IF syn.i = 0 THEN 0 ELSE sample.ts
           ends == EndsOf(syn.running, ts)
       IN  syn' = [syn EXCEPT !.pc = "done",
                              !.result = @ \o ends,
                              !.at = @ \o [e \in DOMAIN ends |-> syn.i]]
    /\ UNCHANGED programVars

\* lines 48-50: no sample is left, result is returned
Return ==
    /\ syn.pc = "for"
    /\ syn.i = Len(syn.samples)
    /\ syn' = [syn EXCEPT !.pc = "done"]
    /\ UNCHANGED programVars

InitSynth ==
    /\ names = ScopeNames
    /\ InitRest
    /\ syn \in {Entered(samples) : samples \in SampleSeqs}

NextSynth ==
    \/ ForSample
    \/ CloseStale
    \/ CloseDone
    \/ OpenNew
    \/ SkipOpen
    \/ EndSample
    \/ Return

SpecSynth == InitSynth /\ [][NextSynth]_vars

\* convertToTrace has returned its result
Returned == syn.pc = "done"

(***************************************************************************)
(* C12                                                                     *)
(***************************************************************************)
\* an event sequence read as a stack of open frames: a start opens its
\* frame on top, an end is in order only when it names the frame on top,
\* which it closes
RECURSIVE OpenAfter(_)
OpenAfter(events) ==
    IF events = <<>> THEN [ok |-> TRUE, open |-> <<>>]
    ELSE LET p == OpenAfter(SubSeq(events, 1, Len(events) - 1))
             e == events[Len(events)]
         IN  IF e.kind = "start"
             THEN [ok |-> p.ok, open |-> Append(p.open, e.name)]
             ELSE [ok   |-> p.ok /\ p.open # <<>> /\ back(p.open) = e.name,
                   open |-> IF p.open = <<>> THEN <<>> ELSE pop_back(p.open)]

\* C12: in the events convertToTrace produces, every end event closes a frame
\* that a start event opened before and that is still open, and always the
\* most recently started one that is still open: frames are closed in the
\* reverse order of their starts.
C12_StackDiscipline ==
    /\ OpenAfter(syn.result).ok
    /\ OpenAfter(syn.result).open = syn.running

\* a finished call that closed two frames one after the other
C12_Witness ==
    /\ Returned
    /\ \E e \in 1..(Len(syn.result) - 1) :
          /\ syn.result[e].kind = "end"
          /\ syn.result[e + 1].kind = "end"
          /\ syn.result[e].name # syn.result[e + 1].name

(***************************************************************************)
(* C13                                                                     *)
(***************************************************************************)
\* C13: for the samples (7.5,[main]), (9.2,[main,my_fn]), (10.7,[main])
\* convertToTrace returns exactly start main@7.5, start my_fn@9.2,
\* end my_fn@10.7, in that order; main is left open, with no trailing end.
C13_MainExample ==
    (Returned /\ syn.samples = MainSamples) =>
        /\ syn.result = << [ts |-> 75,  kind |-> "start", name |-> "main"],
                           [ts |-> 92,  kind |-> "start", name |-> "my_fn"],
                           [ts |-> 107, kind |-> "end",   name |-> "my_fn"] >>
        /\ syn.running = <<"main">>

C13_Witness ==
    /\ Returned
    /\ syn.samples = MainSamples
    /\ syn.i = 3
    /\ Len(syn.result) = 3

(***************************************************************************)
(* C14                                                                     *)
(***************************************************************************)
\* the number of events of one kind emitted for a frame name
CountOf(kind, name) ==
    Cardinality({e \in DOMAIN syn.result :
                    syn.result[e].kind = kind /\ syn.result[e].name = name})

\* the last event emitted for a frame name
LastEventOf(name) ==
    LET es == {e \in DOMAIN syn.result : syn.result[e].name = name}
    IN  syn.result[CHOOSE e \in es : \A d \in es : d <= e]

\* C14: convertToTrace emits no trailing end events: when it has returned,
\* the frames still in running have a start and no end after it, and for
\* every frame name the starts emitted exceed the ends emitted by 1 if the
\* name is in running and by 0 otherwise.
C14_NoTrailingEnds ==
    Returned =>
        /\ \A name \in Frames :
              CountOf("start", name) - CountOf("end", name) =
                  (IF Found(syn.running, name) THEN 1 ELSE 0)
        /\ \A r \in DOMAIN syn.running :
              LastEventOf(syn.running[r]).kind = "start"

\* a finished call that ended a frame on the way and left two frames open
C14_Witness ==
    /\ Returned
    /\ Len(syn.running) = 2
    /\ \E e \in DOMAIN syn.result : syn.result[e].kind = "end"

(***************************************************************************)
(* C15                                                                     *)
(***************************************************************************)
\* some sample has a smaller timestamp than its predecessor
Malformed(samples) ==
    \E k \in 1..(Len(samples) - 1) : samples[k + 1].ts < samples[k].ts

\* C15: a sample sequence whose timestamps decrease somewhere is detected and
\* rejected: convertToTrace does not return an event sequence for it.
C15_MalformedRejected == Malformed(syn.samples) => ~Returned

(***************************************************************************)
(* C16                                                                     *)
(***************************************************************************)
\* the while loop of the current sample has been left
AfterStep1 == syn.pc = "forfunc"

\* C16: after step 1 for a sample, running is empty or its top frame occurs
\* in the sample's stack; the frames popped are those above the topmost frame
\* of the old running that occurs in the sample, each of them absent from
\* the sample, and the events emitted are exactly one end per popped frame,
\* top first, at the sample's timestamp; a frame below a frame that occurs
\* in the sample stays in running whether or not it occurs in the sample.
C16_CloseStaleFrames ==
    AfterStep1 =>
        LET popped == Len(syn.run0) - Len(syn.run1)
        IN  /\ syn.run1 = <<>> \/ Found(sample.stack, back(syn.run1))
            /\ popped >= 0
            /\ syn.run1 = SubSeq(syn.run0, 1, Len(syn.run1))
            /\ \A p \in (Len(syn.run1) + 1)..Len(syn.run0) :
                  ~Found(sample.stack, syn.run0[p])
            /\ syn.res1 = syn.res0 + popped
            /\ \A q \in 1..popped :
                  syn.result[syn.res0 + q] =
                      [ts   |-> sample.ts, kind |-> "end",
                       name |-> syn.run0[Len(syn.run0) - q + 1]]

\* main is below my_fn in running and absent from the sample, my_fn is in
\* the sample: step 1 has closed nothing
C16_Witness ==
    /\ AfterStep1
    /\ syn.run0 = <<"main", "my_fn">>
    /\ sample.stack = <<"my_fn">>
    /\ syn.run1 = <<"main", "my_fn">>
    /\ syn.res1 = syn.res0

(***************************************************************************)
(* C17                                                                     *)
(***************************************************************************)
\* the current sample has been processed to its end
SampleProcessed == syn.pc \in {"for", "done"} /\ syn.i >= 1

\* the names among the first n of stack that are not in run, each once, at
\* its first occurrence, in the order of stack
RECURSIVE FreshUpTo(_, _, _)
FreshUpTo(stack, run, n) ==
    IF n = 0 THEN <<>>
    ELSE LET prev == FreshUpTo(stack, run, n - 1)
         IN  IF /\ ~Found(run, stack[n])
                /\ \A h \in 1..(n - 1) : stack[h] # stack[n]
             THEN Append(prev, stack[n])
             ELSE prev

Fresh(stack, run) == FreshUpTo(stack, run, Len(stack))

\* C17: after a sample has been processed every frame name of its stack is
\* in running; a start event at the sample's timestamp was emitted for
\* exactly the names of the sample that were not in running when visited,
\* in root-to-leaf order, and those names were appended to running in that
\* same order.
C17_OpenNewFrames ==
    SampleProcessed =>
        LET new == Fresh(sample.stack, syn.run1)
        IN  /\ \A j \in DOMAIN sample.stack : Found(syn.running, sample.stack[j])
            /\ syn.running = syn.run1 \o new
            /\ Len(syn.result) = syn.res1 + Len(new)
            /\ \A q \in DOMAIN new :
                  syn.result[syn.res1 + q] =
                      [ts |-> sample.ts, kind |-> "start", name |-> new[q]]

\* a sample with two names of which neither was in running
C17_Witness ==
    /\ SampleProcessed
    /\ sample.stack = <<"main", "my_fn">>
    /\ syn.run1 = <<>>
    /\ syn.running = <<"main", "my_fn">>
    /\ Len(syn.result) = syn.res1 + 2

(***************************************************************************)
(* C18                                                                     *)
(***************************************************************************)
\* the start events for one name emitted while sample k was processed
StartsAt(k, name) ==
    {e \in DOMAIN syn.result :
        /\ syn.at[e] = k
        /\ syn.result[e].kind = "start"
        /\ syn.result[e].name = name}

\* C18: running never holds the same frame name twice, in any state of any
\* call; a sample whose stack holds a name more than once gives at most one
\* start event for that name and a single entry in running.
C18_NoDuplicateFrames ==
    /\ \A a, b \in DOMAIN syn.running :
          a # b => syn.running[a] # syn.running[b]
    /\ \A k \in 1..syn.i, name \in Frames : Cardinality(StartsAt(k, name)) <= 1

\* a sample with main twice in its stack, processed: one start, one entry
C18_Witness ==
    /\ SampleProcessed
    /\ sample.stack = <<"main", "main">>
    /\ syn.run1 = <<>>
    /\ syn.running = <<"main">>
    /\ Cardinality(StartsAt(syn.i, "main")) = 1

(***************************************************************************)
(* C19                                                                     *)
(***************************************************************************)
\* C19: every event carries the timestamp of the sample that was being
\* processed when it was emitted; within one sample all end events are
\* emitted before all start events; hence, when the timestamps of the input
\* never decrease, the timestamps of the events never decrease in emission
\* order.
C19_EventTimestamps ==
    /\ Len(syn.at) = Len(syn.result)
    /\ \A e \in DOMAIN syn.result :
          syn.result[e].ts = syn.samples[syn.at[e]].ts
    /\ \A e, f \in DOMAIN syn.result :
          (e < f /\ syn.at[e] = syn.at[f]) =>
              ~(syn.result[e].kind = "start" /\ syn.result[f].kind = "end")
    /\ ~Malformed(syn.samples) =>
          \A e, f \in DOMAIN syn.result :
              e < f => syn.result[e].ts <= syn.result[f].ts

\* a finished call on increasing timestamps in which one sample both closed
\* a frame and opened another
C19_Witness ==
    /\ Returned
    /\ ~Malformed(syn.samples)
    /\ \E e, f \in DOMAIN syn.result :
          /\ e < f
          /\ syn.at[e] = syn.at[f]
          /\ syn.result[e].kind = "end"
          /\ syn.result[f].kind = "start"
          /\ syn.result[1].ts < syn.result[e].ts

(***************************************************************************)
(* C20                                                                     *)
(***************************************************************************)
\* the step is a beginSession call
Begins == Len(log') = Len(log) + 1

\* the step is a first stop() or scope exit of some timer: a record call
Records == \E t \in Timers : ~timers[t].m_stopped /\ timers'[t].m_stopped

\* C20: the Session goes from inactive to active by begin only, from active
\* to inactive by end only, which leaves event counter 0 and baseline 0, and
\* from active to active with a new session by begin, which ends the old one
\* first; record never changes the active flag, the baseline or the session
\* identity; the baseline is set by begin only and is the same during the
\* whole life of a session.
C20_SessionStateMachine ==
    /\ [][/\ (~ins.m_currentSessionActive /\ ins'.m_currentSessionActive) => Begins
          /\ (ins.m_currentSessionActive /\ ~ins'.m_currentSessionActive) =>
                /\ ~Begins
                /\ ~log[Len(log)].closed /\ log'[Len(log)].closed
                /\ ins'.m_profileCount = 0
                /\ ins'.m_sessionStartUs = 0
          /\ Begins =>
                /\ ins'.m_currentSessionActive
                /\ ins'.m_sessionStartUs = now
                /\ ins'.m_profileCount = 0
                /\ ins'.m_session = [name |-> SessionName(Len(log'))]
                /\ ins.m_currentSessionActive => log'[Len(log)].closed
          /\ (~Begins /\ ins'.m_currentSessionActive) =>
                /\ ins.m_currentSessionActive
                /\ ins'.m_sessionStartUs = ins.m_sessionStartUs
                /\ ins'.m_session = ins.m_session
          /\ Records =>
                /\ ~Begins
                /\ ins'.m_currentSessionActive = ins.m_currentSessionActive
                /\ ins'.m_sessionStartUs = ins.m_sessionStartUs
                /\ ins'.m_session = ins.m_session]_vars
    /\ [](/\ ins.m_currentSessionActive =>
                /\ log # <<>>
                /\ ~log[Len(log)].closed
                /\ ins.m_sessionStartUs = log[Len(log)].base
          /\ ~ins.m_currentSessionActive =>
                /\ ins.m_profileCount = 0
                /\ ins.m_sessionStartUs = 0)

\* begin, a record, a later begin while active, a record, then end: all
\* three transitions were taken, with two different baselines
C20_Witness ==
    /\ Len(log) = 2
    /\ log[2].reopen
    /\ log[1].base # log[2].base
    /\ Len(log[1].evs) >= 1
    /\ Len(log[2].evs) >= 1
    /\ lastOp.op = "end" /\ lastOp.active
    /\ ~ins.m_currentSessionActive

(***************************************************************************)
(* C21                                                                     *)
(***************************************************************************)
\* C21: every event written has dur = endUs - startUs of the interval it was
\* given, which is not negative when startUs <= endUs, whatever the baseline:
\* the unsigned subtraction of the baseline from both endpoints cancels, also
\* when the timer was started before the baseline; and that dur is in the
\* document.
C21_DurCancelsBaseline ==
    \A ki \in Recorded :
        LET e == log[ki[1]].evs[ki[2]]
        IN  /\ e.startUs <= e.endUs =>
                  /\ e.dur = e.endUs - e.startUs
                  /\ e.dur >= 0
            /\ (log[ki[1]].ok /\ LastOn(ki[1])) => SinkHolds(ki[1])

\* an event of a timer started before the baseline of its session and
\* stopped after it, on a working sink
C21_Witness ==
    \E ki \in Recorded :
        LET e == log[ki[1]].evs[ki[2]]
        IN  /\ e.startUs < log[ki[1]].base
            /\ e.endUs >= log[ki[1]].base
            /\ e.dur = 1
            /\ log[ki[1]].ok /\ LastOn(ki[1])

(***************************************************************************)
(* C22                                                                     *)
(***************************************************************************)
\* the step ends the current session
Ends == log # <<>> /\ ~log[Len(log)].closed /\ log'[Len(log)].closed

\* C22: while a session is active the event counter is the number of events
\* recorded in it, and its sink holds the header followed by those events
\* joined by ", "; ending the session puts "]}" after exactly that content
\* (seen in the file unless the same call begins a new session on that file,
\* which truncates it).
C22_CounterAndDocument ==
    /\ [](ins.m_currentSessionActive =>
            LET k == Len(log)
            IN  /\ ins.m_profileCount = Len(log[k].evs)
                /\ log[k].ok =>
                      /\ ins.m_outputStream.path = log[k].path
                      /\ files[log[k].path].data =
                             HEADER \o JoinObjects(log[k].evs))
    /\ [][(/\ Ends
           /\ log'[Len(log)].ok
           /\ Begins => log'[Len(log')].path # log[Len(log)].path) =>
            /\ log'[Len(log)].evs = log[Len(log)].evs
            /\ files'[log[Len(log)].path].data =
                   files[log[Len(log)].path].data \o FOOTER]_vars

\* a session on a working sink, ended after two events were recorded in it
C22_Witness ==
    /\ lastOp.op = "end" /\ lastOp.active
    /\ ~ins.m_currentSessionActive
    /\ log[Len(log)].ok
    /\ Len(log[Len(log)].evs) = 2
    /\ files[log[Len(log)].path].data =
           HEADER \o JoinObjects(log[Len(log)].evs) \o FOOTER

(***************************************************************************)
(* C23                                                                     *)
(***************************************************************************)
\* timer t submitted its interval while no session was active
StoppedOutside(t) == timers[t].calls >= 1 /\ timers[t].sess = 0

\* C23: a timer whose first stop, explicit or at scope exit, is made while no
\* session is active is marked stopped and nothing is written for it; its
\* interval is discarded for good: no event of it is ever recorded, also when
\* a session is begun later and the timer is stopped again or destroyed in it.
C23_DiscardedForGood ==
    /\ [][\A t \in Timers :
            (timers'[t].calls = timers[t].calls + 1 /\ ~ins.m_currentSessionActive) =>
                /\ timers'[t].m_stopped
                /\ ins' = ins
                /\ files' = files
                /\ log' = log]_vars
    /\ [](\A t \in Timers :
            StoppedOutside(t) =>
                /\ timers[t].m_stopped
                /\ timers[t].calls = 1
                /\ EventsOf(t) = 0)

\* a timer stopped while no session was active, then destroyed inside a
\* session begun afterwards: no event
C23_Witness ==
    \E t \in Timers :
        /\ StoppedOutside(t)
        /\ timers[t].st = "dead"
        /\ lastOp = [op |-> "destroy", t |-> t, active |-> TRUE, stopped |-> TRUE]
        /\ ins.m_currentSessionActive
        /\ log[Len(log)].ok
        /\ EventsOf(t) = 0

====
